---- MODULE Spec2Model ----
(***************************************************************************)
(* A model of tilenol's bootstrap sequencer and event loop                 *)
(* (src/tilenol/main.py) and of its configuration compiler                 *)
(* (src/tilenol/config.py).                                                *)
(*                                                                         *)
(* Seven specifications share the module:                                  *)
(*   Spec       Tilenol.run from construction to the event loop            *)
(*   SpecRules  Tilenol.run up to the event dispatcher, over every rule    *)
(*              configuration within the bounds                            *)
(*   SpecExt    Config.get_extension_class as a function of its inputs     *)
(*   SpecPath   Config.init_extensions called repeatedly                   *)
(*   SpecGest   Config.gestures as a function of its two sources           *)
(*   SpecBars   Config.bars called repeatedly on the loaded tree           *)
(*   SpecSig    Tilenol.loop interrupted by child_handler                  *)
(***************************************************************************)
EXTENDS Integers, Sequences, FiniteSets, TLC

VARIABLES
    pc,          \* position of Tilenol.run
    exc,         \* the exception that escaped Tilenol.run, or "none"
    inj,         \* names registered in the DependencyInjector, in order
    cfgRules,    \* self.config.get_config('rules', {}): the file-backed rules
    dataRules,   \* self.data.get('rules', {}): the in-memory rules block
    rpos,        \* position <<i, j>> of the suspended Config.rules generator
    classifier,  \* rules handed to Classifier.add_rule, in order
    all_windows, \* windows known to the event dispatcher
    children,    \* reply of QueryTree(root)['children']
    ci,          \* index of the next child catch_windows looks at
    attrs,       \* what catch_windows read of GetWindowAttributes, by window
    emitted,     \* synthetic events handed to the dispatcher's handlers
    handlers,    \* signals with a handler installed
    stream,      \* live events the transport has produced, in arrival order
    fetched,     \* number of events the loop has taken from get_events()
    dispatched,  \* events passed to dispatcher.dispatch, in order
    raised,      \* events (synthetic or live) whose handling raised
    log,         \* events logged by log.exception in Tilenol.loop
    extIn,       \* arguments and environment of a get_extension_class call
    extOut,      \* what the call returned or raised
    extPath,     \* tilenol.ext.__path__
    configDirs,  \* self.config.dirs
    calls,       \* calls of init_extensions made so far
    redirect,    \* whether the server granted substructure redirection
    stderr,      \* diagnostics printed to standard error
    gestFile,    \* the file-backed 'gestures' configuration
    gestData,    \* self.data['gestures']
    gestOut,     \* what Config.gestures returned or raised, and its warnings
    dataBars,    \* self.data['bars']
    dataLoaded,  \* self.data['bars'] as Config.__init__ received it
    barsOut,     \* the results of the calls of Config.bars, in order
    kids,        \* the state of every child process
    hstate,      \* position of child_handler
    atStart,     \* children already terminated when child_handler started
    waits,       \* waitpid calls of the current child_handler invocation
    pending,     \* whether a SIGCHLD is waiting to be delivered
    cur          \* the event Tilenol.loop is dispatching, if any

runVars == <<pc, exc, inj, cfgRules, dataRules, rpos, classifier, all_windows,
             children, ci, attrs, emitted, handlers, stream, fetched,
             dispatched, raised, log, redirect, stderr>>

extVars == <<extIn, extOut>>

pathVars == <<extPath, configDirs, calls>>

gestVars == <<gestFile, gestData, gestOut>>

barVars == <<dataBars, dataLoaded, barsOut>>

sigVars == <<kids, hstate, atStart, waits, pending, cur>>

\* What the steps of Tilenol.run leave alone.
otherVars == <<extVars, pathVars, gestVars, barVars, sigVars>>

vars == <<runVars, otherVars>>

----------------------------------------------------------------------------
(* Bounds *)

MaxRules == 2       \* rules declared in the two rule sources together
MaxChildren == 2    \* children in the reply of QueryTree
MaxEvents == 2      \* live events the transport produces
MaxNameLen == 3     \* characters of a name given to get_extension_class
MaxDirs == 3        \* configuration directories
MaxCalls == 2       \* calls of init_extensions
MaxGestures == 2    \* gesture entries of the file-backed configuration
MaxKids == 2        \* child processes
MaxWidgets == 1     \* entries of the 'left' or 'right' list of a bar
MaxBars == 1        \* entries of self.data['bars']

----------------------------------------------------------------------------
(* Config.rules: the rule compiler *)

\* tilenol.classify registers condition kinds and action kinds by name; the
\* model keeps one of each, and one key that is registered as neither.
all_conditions == {"title"}
all_actions == {"float"}
Keys == all_conditions \cup all_actions \cup {"bogus"}

\* Subjects (window classes) a rule list is declared for.  "st" is a
\* two-character class name: unpacking it as a pair succeeds.
Subjects == {"global", "st"}

RECURSIVE SeqsUpTo(_, _)
SeqsUpTo(S, n) ==
    IF n = 0 THEN {<<>>}
    ELSE LET shorter == SeqsUpTo(S, n - 1)
         IN  shorter \cup {Append(s, x) : s \in {t \in shorter : Len(t) = n - 1}, x \in S}

Distinct(s) == \A a, b \in 1..Len(s) : a # b => s[a] # s[b]

\* A rule is a mapping; the model keeps its keys in iteration order.  Rules
\* of no key, one key and two different keys are explored.
RuleSpace ==
    {<<>>} \cup {<<k>> : k \in Keys}
           \cup {r \in Keys \X Keys : r[1] # r[2]}

\* A mutant of CompileKeys: a key registered as neither kind is skipped.
RECURSIVE CompileKeysSkipUnknown(_, _, _, _)
CompileKeysSkipUnknown(rule, n, cond, act) ==
    IF n > Len(rule) THEN [exc |-> "none", cond |-> cond, act |-> act]
    ELSE LET k == rule[n]
         IN  IF k \in all_conditions
               THEN CompileKeysSkipUnknown(rule, n + 1, Append(cond, k), act)
             ELSE IF k \in all_actions
               THEN CompileKeysSkipUnknown(rule, n + 1, cond, Append(act, k))
             ELSE CompileKeysSkipUnknown(rule, n + 1, cond, act)

\* The loop body over one rule's items (config.py 283-300): conditions and
\* actions are collected in key order; an unregistered key raises.
RECURSIVE CompileKeys(_, _, _, _)
CompileKeys(rule, n, cond, act) ==
    IF n > Len(rule) THEN [exc |-> "none", cond |-> cond, act |-> act]
    ELSE LET k == rule[n]
         IN  IF k \in all_conditions
               THEN CompileKeys(rule, n + 1, Append(cond, k), act)
             ELSE IF k \in all_actions
               THEN CompileKeys(rule, n + 1, cond, Append(act, k))
             ELSE [exc |-> "NotImplementedError", cond |-> cond, act |-> act]

\* A mutant of CompileRule: a rule without actions is let through.
CompileRuleNoActCheck(rule) == CompileKeys(rule, 1, <<>>, <<>>)

\* One rule compiled (config.py 283-304): the keys, then the check that the
\* rule has an action.
CompileRule(rule) ==
    LET r == CompileKeys(rule, 1, <<>>, <<>>)
    IN  IF r.exc # "none" THEN r
        ELSE IF r.act = <<>> THEN [r EXCEPT !.exc = "NotImplementedError"]
        ELSE r

\* if cls == 'global': cls = None  (config.py 280-281)
NormClass(cls) == IF cls = "global" THEN "None" ELSE cls

Pair(cls, rules) == [tag |-> "pair", cls |-> cls, rules |-> rules]
KeyOnly(cls) == [tag |-> "key", cls |-> cls, rules |-> <<>>]

\* What iterating the in-memory block yields (config.py 278): the block is
\* iterated directly, so a mapping yields its keys only, while a sequence of
\* (subject, rules) pairs yields the pairs.
DataItems(d) ==
    IF d.shape = "map" THEN [n \in 1..Len(d.items) |-> KeyOnly(d.items[n].cls)]
    ELSE d.items

\* chain(primary.items(), data)  (config.py 276-279)
RuleChain(primary, d) == primary \o DataItems(d)

\* The generator resumed at item i, rule j, up to its next yield, raise or
\* end (config.py 276-304).  Unpacking `cls, rules = item` of a string takes
\* its characters: it raises ValueError unless the string has two, and then
\* rules is a one-character string whose element has no .items().
RECURSIVE Resume(_, _, _)
Resume(chain, i, j) ==
    IF i > Len(chain) THEN [kind |-> "stop"]
    ELSE LET item == chain[i]
         IN  IF item.tag = "key"
               THEN IF Len(item.cls) # 2
                      THEN [kind |-> "raise", exc |-> "ValueError"]
                      ELSE [kind |-> "raise", exc |-> "AttributeError"]
             ELSE IF j > Len(item.rules) THEN Resume(chain, i + 1, 1)
             ELSE LET r == CompileRule(item.rules[j])
                  IN  IF r.exc # "none"
                        THEN [kind |-> "raise", exc |-> r.exc]
                        ELSE [kind |-> "yield",
                              rule |-> <<NormClass(item.cls), r.cond, r.act>>,
                              pos |-> <<i, j + 1>>]

\* The rule sources a configuration can hold: the rules rs cut at c[1] and
\* c[2] into the rule lists of at most two subjects of the file-backed source
\* and at most one subject of the in-memory block, every declared subject
\* with a rule.
CutsFit(n, np, nd, c) ==
    /\ c[1] <= c[2]
    /\ c[2] <= n
    /\ IF np = 0 THEN c[2] = 0
       ELSE IF np = 1 THEN c[1] = c[2] /\ c[1] >= 1
       ELSE c[1] >= 1 /\ c[2] > c[1]
    /\ IF nd = 0 THEN c[2] = n ELSE c[2] < n

PrimarySubjects == {p \in SeqsUpTo(Subjects, 2) : Distinct(p)}
DataSubjects == SeqsUpTo(Subjects, 1)

ConfigOf(rs, ps, ds, sh, c) ==
    [primary |-> [k \in 1..Len(ps) |->
                    Pair(ps[k], IF k = 1 THEN SubSeq(rs, 1, c[1])
                                ELSE SubSeq(rs, c[1] + 1, c[2]))],
     data |-> [shape |-> sh,
               items |-> [k \in 1..Len(ds) |-> Pair(ds[k], SubSeq(rs, c[2] + 1, Len(rs)))]]]

ConfigSpace ==
    {ConfigOf(t[1], t[2], t[3], t[4], t[5]) :
        t \in {u \in SeqsUpTo(RuleSpace, MaxRules) \X PrimarySubjects \X DataSubjects
                       \X {"map", "pairs"} \X ((0..MaxRules) \X (0..MaxRules)) :
                  /\ CutsFit(Len(u[1]), Len(u[2]), Len(u[3]), u[5])
                  /\ u[3] = <<>> => u[4] = "map"}}

\* The configurations the whole of Tilenol.run is explored with: no rules, a
\* valid rule set, a rule without action, an unregistered key after a valid
\* rule, and an in-memory block that is a mapping.
NoData == [shape |-> "map", items |-> <<>>]
OneSubject(cls, rules) == <<Pair(cls, rules)>>
RunConfigs ==
    {[primary |-> <<>>, data |-> NoData],
     [primary |-> OneSubject("global", << <<"title", "float">> >>),
      data |-> [shape |-> "pairs", items |-> OneSubject("st", << <<"float">> >>)]],
     [primary |-> OneSubject("st", << <<"title">> >>), data |-> NoData],
     [primary |-> OneSubject("global", << <<"float">>, <<"float", "bogus">> >>),
      data |-> NoData],
     [primary |-> OneSubject("st", << <<"float">> >>),
      data |-> [shape |-> "pairs", items |-> OneSubject("global", << <<"bogus">> >>)]],
     [primary |-> OneSubject("st", << <<"float">> >>),
      data |-> [shape |-> "map", items |-> OneSubject("global", << <<"float">> >>)]]}

----------------------------------------------------------------------------
(* Tilenol.run *)

Root == 1
WindowIds == 1..(MaxChildren + 1)

\* Replies of GetWindowAttributes that catch_windows reads.
AttrSpace == [class : {"InputOutput", "InputOnly"},
              map_state : {"Unmapped", "Unviewable", "Viewable"},
              override_redirect : BOOLEAN]

NoAttr == [class |-> "unqueried", map_state |-> "unqueried", override_redirect |-> FALSE]

\* The fields of a reply that catch_windows reads: of an input-only window
\* the class alone (main.py 134-135).
Seen(a) ==
    IF a.class = "InputOnly"
      THEN [class |-> "InputOnly", map_state |-> "unread", override_redirect |-> FALSE]
      ELSE a

ChildLists == {s \in SeqsUpTo(WindowIds, MaxChildren) : Distinct(s)}

CreateNotify(w, a) ==
    [type |-> "CreateNotify", window |-> w, override_redirect |-> a.override_redirect]
MapRequest(w) == [type |-> "MapRequest", window |-> w, override_redirect |-> FALSE]
Live(n) == [type |-> "Live", seq |-> n]

\* The state before Tilenol.run starts, with the rule sources drawn from
\* configs.
InitWith(configs) ==
    /\ pc = "start"
    /\ exc = "none"
    /\ inj = <<>>
    /\ \E c \in configs : cfgRules = c.primary /\ dataRules = c.data
    /\ rpos = <<1, 1>>
    /\ classifier = <<>>
    /\ all_windows = {}
    /\ children = <<>>
    /\ ci = 1
    /\ attrs = [w \in WindowIds |-> NoAttr]
    /\ emitted = <<>>
    /\ handlers = {}
    /\ stream = <<>>
    /\ fetched = 0
    /\ dispatched = <<>>
    /\ raised = {}
    /\ log = <<>>
    /\ redirect = TRUE
    /\ stderr = <<>>

\* A mutant of Services: the window manager is injected ahead of the event
\* dispatcher and the desktop-hints helper.
ServicesSelfFirst(step) ==
    CASE step = "start" -> <<"xcore", "keysyms", "config", "theme", "commander",
                             "screen-manager", "key-registry", "mouse-registry",
                             "group-manager">>
      [] step = "classifier" -> <<"classifier">>
      [] step = "dispatcher" -> <<"tilenol", "event-dispatcher", "ewmh">>

\* main.py 65-103: the services a step of run registers with the injector,
\* in order; "tilenol" stands for inj.inject(self).
Services(step) ==
    CASE step = "start" -> <<"xcore", "keysyms", "config", "theme", "commander",
                             "screen-manager", "key-registry", "mouse-registry",
                             "group-manager">>
      [] step = "classifier" -> <<"classifier">>
      [] step = "dispatcher" -> <<"event-dispatcher", "ewmh", "tilenol">>

\* main.py 57-93: the connection, the injector and the services up to the
\* group manager.
Construct ==
    /\ pc = "start"
    /\ pc' = "classifier"
    /\ inj' = Services("start")
    /\ UNCHANGED <<exc, cfgRules, dataRules, rpos, classifier, all_windows,
                   children, ci, attrs, emitted, handlers, stream, fetched,
                   dispatched, raised, log>>
    /\ UNCHANGED <<redirect, stderr, otherVars>>

\* main.py 95
CreateClassifier ==
    /\ pc = "classifier"
    /\ pc' = "rules"
    /\ inj' = inj \o Services("classifier")
    /\ UNCHANGED <<exc, cfgRules, dataRules, rpos, classifier, all_windows,
                   children, ci, attrs, emitted, handlers, stream, fetched,
                   dispatched, raised, log>>
    /\ UNCHANGED <<redirect, stderr, otherVars>>

\* main.py 96-97: one turn of `for cls, cond, act in cfg.rules()`: the
\* generator runs to its next yield and the rule is added, or it ends, or
\* its exception leaves run.
RulesStep ==
    /\ pc = "rules"
    /\ LET r == Resume(RuleChain(cfgRules, dataRules), rpos[1], rpos[2])
       IN  CASE r.kind = "yield" ->
                  /\ classifier' = Append(classifier, r.rule)
                  /\ rpos' = r.pos
                  /\ UNCHANGED <<pc, exc>>
             [] r.kind = "stop" ->
                  /\ pc' = "dispatcher"
                  /\ UNCHANGED <<classifier, rpos, exc>>
             [] r.kind = "raise" ->
                  /\ pc' = "crashed"
                  /\ exc' = r.exc
                  /\ UNCHANGED <<classifier, rpos>>
    /\ UNCHANGED <<inj, cfgRules, dataRules, all_windows, children, ci, attrs,
                   emitted, handlers, stream, fetched, dispatched, raised, log>>
    /\ UNCHANGED <<redirect, stderr, otherVars>>

\* main.py 99-103: the event dispatcher, the desktop-hints helper, and the
\* window manager itself injected last.
CreateDispatcher ==
    /\ pc = "dispatcher"
    /\ pc' = "setup"
    /\ inj' = inj \o Services("dispatcher")
    /\ all_windows' = {}
    /\ UNCHANGED <<exc, cfgRules, dataRules, rpos, classifier, children, ci,
                   attrs, emitted, handlers, stream, fetched, dispatched,
                   raised, log>>
    /\ UNCHANGED <<redirect, stderr, otherVars>>

Diagnostic == "Probably another window manager is running"

SetupResult(printed, e) == [printed |-> printed, exc |-> e]

\* A mutant of setup_events: the refusal is raised instead of printed.
setup_events_raise(granted) ==
    IF granted THEN SetupResult(<<>>, "none") ELSE SetupResult(<<>>, "SystemExit")

\* main.py 155-167: the event mask is requested on the root window, and a
\* mask read back without substructure redirection is reported on stderr.
setup_events(granted) ==
    IF granted THEN SetupResult(<<>>, "none") ELSE SetupResult(<<Diagnostic>>, "none")

\* main.py 105-109: key map, hotkeys, mouse buttons, root event interest.
\* Another window manager holding the redirection makes the server refuse it.
SetupInput ==
    /\ pc = "setup"
    /\ \E granted \in BOOLEAN :
          LET r == setup_events(granted)
          IN  /\ redirect' = granted
              /\ stderr' = stderr \o r.printed
              /\ exc' = r.exc
              /\ pc' = IF r.exc = "none" THEN "bars" ELSE "crashed"
    /\ UNCHANGED <<inj, cfgRules, dataRules, rpos, classifier, all_windows,
                   children, ci, attrs, emitted, handlers, stream, fetched,
                   dispatched, raised, log>>
    /\ UNCHANGED otherVars

\* main.py 111-120: the status bars; a bar's own window becomes known to the
\* dispatcher when it is created.
SetupBars ==
    /\ pc = "bars"
    /\ pc' = "catch"
    /\ \E bars \in SUBSET (WindowIds \ {Root}) :
          /\ Cardinality(bars) <= 1
          /\ all_windows' = bars
    /\ UNCHANGED <<exc, inj, cfgRules, dataRules, rpos, classifier, children,
                   ci, attrs, emitted, handlers, stream, fetched, dispatched,
                   raised, log>>
    /\ UNCHANGED <<redirect, stderr, otherVars>>

\* main.py 128-130: the tree query that starts catch_windows.
QueryTree ==
    /\ pc = "catch"
    /\ pc' = "discover"
    /\ \E ch \in ChildLists : children' = ch
    /\ ci' = 1
    /\ UNCHANGED <<exc, inj, cfgRules, dataRules, rpos, classifier, all_windows,
                   attrs, emitted, handlers, stream, fetched, dispatched,
                   raised, log>>
    /\ UNCHANGED <<redirect, stderr, otherVars>>

Step(ev, known, queried, e, bad) ==
    [ev |-> ev, known |-> known, queried |-> queried, exc |-> e, raised |-> bad]

\* A mutant of Discover: the mapping event is sent ahead of the creation event.
DiscoverMapFirst(w, known, a, createRaises, mapRaises) ==
    IF w = Root \/ w \in known THEN Step(<<>>, known, FALSE, "none", {})
    ELSE IF a.class = "InputOnly" THEN Step(<<>>, known, TRUE, "none", {})
    ELSE IF a.map_state # "Unmapped" /\ ~a.override_redirect
      THEN Step(<<MapRequest(w), CreateNotify(w, a)>>, known \cup {w}, TRUE, "none", {})
    ELSE Step(<<CreateNotify(w, a)>>, known \cup {w}, TRUE, "none", {})

\* main.py 131-153: the body of the loop of catch_windows for child w, given
\* the attributes reply a and whether each handler raises.  A handler's
\* exception is not caught here: it leaves catch_windows.
Discover(w, known, a, createRaises, mapRaises) ==
    IF w = Root \/ w \in known THEN Step(<<>>, known, FALSE, "none", {})
    ELSE IF a.class = "InputOnly" THEN Step(<<>>, known, TRUE, "none", {})
    ELSE IF createRaises
      THEN Step(<<CreateNotify(w, a)>>, known, TRUE, "HandlerError", {CreateNotify(w, a)})
    ELSE IF a.map_state # "Unmapped" /\ ~a.override_redirect
      THEN IF mapRaises
             THEN Step(<<CreateNotify(w, a), MapRequest(w)>>, known \cup {w}, TRUE,
                       "HandlerError", {MapRequest(w)})
             ELSE Step(<<CreateNotify(w, a), MapRequest(w)>>, known \cup {w}, TRUE,
                       "none", {})
    ELSE Step(<<CreateNotify(w, a)>>, known \cup {w}, TRUE, "none", {})

DiscoverWindow ==
    /\ pc = "discover"
    /\ ci <= Len(children)
    /\ \E a \in AttrSpace, createRaises \in BOOLEAN, mapRaises \in BOOLEAN :
          LET w == children[ci]
              r == Discover(w, all_windows, a, createRaises, mapRaises)
          IN  /\ emitted' = emitted \o r.ev
              /\ all_windows' = r.known
              /\ attrs' = IF r.queried THEN [attrs EXCEPT ![w] = Seen(a)] ELSE attrs
              /\ raised' = raised \cup r.raised
              /\ exc' = r.exc
              /\ pc' = IF r.exc = "none" THEN pc ELSE "crashed"
              /\ ci' = IF r.exc = "none" THEN ci + 1 ELSE ci
    /\ UNCHANGED <<inj, cfgRules, dataRules, rpos, classifier, children,
                   handlers, stream, fetched, dispatched, log>>
    /\ UNCHANGED <<redirect, stderr, otherVars>>

\* main.py 123-124, reached when catch_windows has returned.
InstallSignals ==
    /\ pc = "discover"
    /\ ci > Len(children)
    /\ pc' = "loop"
    /\ handlers' = {"SIGCHLD", "SIGQUIT"}
    /\ UNCHANGED <<exc, inj, cfgRules, dataRules, rpos, classifier, all_windows,
                   children, ci, attrs, emitted, stream, fetched, dispatched,
                   raised, log>>
    /\ UNCHANGED <<redirect, stderr, otherVars>>

\* The transport: the server sends events once the root event mask is set.
Arrive ==
    /\ pc \in {"bars", "catch", "discover", "loop"}
    /\ Len(stream) < MaxEvents
    /\ stream' = Append(stream, Live(Len(stream) + 1))
    /\ UNCHANGED <<pc, exc, inj, cfgRules, dataRules, rpos, classifier,
                   all_windows, children, ci, attrs, emitted, handlers, fetched,
                   dispatched, raised, log>>
    /\ UNCHANGED <<redirect, stderr, otherVars>>

Turn(logged, e, adv) == [logged |-> logged, exc |-> e, advance |-> adv]

\* A mutant of LoopBody: no try/except around dispatch.
LoopBodyNoCatch(e, fails) ==
    IF fails THEN Turn(<<>>, "HandlerError", 1) ELSE Turn(<<>>, "none", 1)

\* main.py 171-174: dispatch of one event inside try/except Exception.
LoopBody(e, fails) ==
    IF fails THEN Turn(<<e>>, "none", 1) ELSE Turn(<<>>, "none", 1)

\* A mutant of LoopEntered: events are taken while catch_windows still runs.
LoopEnteredEarly == pc \in {"discover", "loop"}

\* main.py 122-125: self.loop() is called after catch_windows has returned
\* and the signal handlers are installed.
LoopEntered == pc = "loop"

\* main.py 170-174: one turn of `for i in self.xcore.get_events()`.
LoopStep ==
    /\ LoopEntered
    /\ fetched < Len(stream)
    /\ \E fails \in BOOLEAN :
          LET e == stream[fetched + 1]
              r == LoopBody(e, fails)
          IN  /\ dispatched' = Append(dispatched, e)
              /\ raised' = IF fails THEN raised \cup {e} ELSE raised
              /\ log' = log \o r.logged
              /\ fetched' = fetched + r.advance
              /\ exc' = r.exc
              /\ pc' = IF r.exc = "none" THEN pc ELSE "crashed"
    /\ UNCHANGED <<inj, cfgRules, dataRules, rpos, classifier, all_windows,
                   children, ci, attrs, emitted, handlers, stream>>
    /\ UNCHANGED <<redirect, stderr, otherVars>>

----------------------------------------------------------------------------
(* Config.get_extension_class *)

\* Names are sequences of characters; "." is the separator of a dotted name.
Alphabet == {"a", "b", "."}
Names == SeqsUpTo(Alphabet, MaxNameLen)

\* Modules of the tilenol.ext namespace that can exist, and the one
\* attribute name a module can define.
ModNames == {<<"a">>, <<"b">>}
AttrNames == {<<"a">>}

\* What a module attribute is: a class derived from base_class, another
\* class, an object that is no class, or nothing ("Missing").
Kinds == {"Sub", "Other", "NonClass", "Missing"}

Obj(kind, home) == [kind |-> kind, home |-> home]
DefaultValue == Obj("default_value", <<"caller">>)

\* A module: whether importing it succeeds, and the kind of each attribute.
ModuleSpace == [loadable : BOOLEAN, attr : [AttrNames -> Kinds]]
NoModule == [loadable |-> FALSE, attr |-> [n \in AttrNames |-> "Missing"]]

\* __import__('tilenol.ext.' + m): ImportError for a module that does not
\* exist or does not load (NoModule stands for the failed import).
Import(mods, m) ==
    IF m \in DOMAIN mods /\ mods[m].loadable THEN mods[m] ELSE NoModule

\* getattr(mod, n): the attribute, or Obj("Missing", ..) for AttributeError;
\* mod is None when its import failed.
GetAttr(mod, home, n) ==
    IF mod.loadable /\ n \in DOMAIN mod.attr THEN Obj(mod.attr[n], home)
    ELSE Obj("Missing", home)

HasDot(name) == \E k \in 1..Len(name) : name[k] = "."
FirstDot(name) == CHOOSE k \in 1..Len(name) :
                     name[k] = "." /\ \A l \in 1..(k - 1) : name[l] # "."

\* name.split('.', 1)
SplitDot(name) ==
    <<SubSeq(name, 1, FirstDot(name) - 1), SubSeq(name, FirstDot(name) + 1, Len(name))>>

Returned(v) == [exc |-> "none", ret |-> v]
Raised(e) == [exc |-> e, ret |-> Obj("Missing", <<>>)]

\* config.py 116-119: issubclass(res, base_class) raises TypeError when res
\* is not a class.
CheckBase(res) ==
    IF res.kind = "NonClass" THEN Raised("TypeError")
    ELSE IF res.kind # "Sub" THEN Returned(DefaultValue)
    ELSE Returned(res)

\* config.py 90-119
get_extension_class(name, module_name, mods, default_module) ==
    LET mod == Import(mods, module_name)
    IN  IF HasDot(name)
          THEN LET module == SplitDot(name)[1]
                   cname == SplitDot(name)[2]
                   dotted == Import(mods, module)
                   res == GetAttr(dotted, module, cname)
               IN  IF ~dotted.loadable \/ res.kind = "Missing"
                     THEN Returned(DefaultValue)
                     ELSE CheckBase(res)
          ELSE LET res == GetAttr(mod, module_name, name)
               IN  IF res.kind # "Missing" THEN CheckBase(res)
                   ELSE LET res2 == GetAttr(default_module, <<"default_module">>, name)
                        IN  IF res2.kind = "Missing" THEN Returned(DefaultValue)
                            ELSE CheckBase(res2)

NotCalled == [exc |-> "not called", ret |-> Obj("Missing", <<>>)]

ExtInputs ==
    [name : Names, module_name : ModNames, mods : [ModNames -> ModuleSpace],
     default_module : ModuleSpace]

ExtIdle ==
    /\ extIn = [name |-> <<>>, module_name |-> <<"a">>,
                mods |-> [m \in ModNames |-> NoModule], default_module |-> NoModule]
    /\ extOut = NotCalled

PathInit(dirs) ==
    /\ extPath = <<"tilenol/ext">>
    /\ configDirs = dirs
    /\ calls = 0

PathIdle == PathInit(<<"~/.config">>)

\* A call of get_extension_class on the chosen inputs.
GetExtensionClass ==
    /\ extOut = NotCalled
    /\ extOut' = get_extension_class(extIn.name, extIn.module_name, extIn.mods,
                                     extIn.default_module)
    /\ UNCHANGED <<extIn, runVars, pathVars, gestVars, barVars, sigVars>>

----------------------------------------------------------------------------
(* Config.init_extensions *)

\* Directories self.config.dirs can name: XDG_CONFIG_HOME, then the entries
\* of XDG_CONFIG_DIRS.
DirNames == {"~/.config", "/etc/xdg", "/usr/local/etc/xdg", "/opt/xdg"}
DirLists == {d \in SeqsUpTo(DirNames, MaxDirs) : Len(d) >= 1 /\ Distinct(d)}

SiteExtensions == "/usr/share/tilenol/site-extensions"

\* os.path.join(path, 'tilenol', 'ext')
ExtDir(path) == path \o "/tilenol/ext"

\* list.insert(i, x): a negative index counts from the end, and an index
\* outside the list is clipped to it.
Insert(s, i, x) ==
    LET at == IF i < 0 THEN (IF Len(s) + i < 0 THEN 0 ELSE Len(s) + i)
              ELSE IF i > Len(s) THEN Len(s) ELSE i
    IN  SubSeq(s, 1, at) \o <<x>> \o SubSeq(s, at + 1, Len(s))

\* config.py 86-87: for i, path in enumerate(self.config.dirs)
RECURSIVE InsertDirs(_, _, _)
InsertDirs(path, dirs, i) ==
    IF i >= Len(dirs) THEN path
    ELSE InsertDirs(Insert(path, i, ExtDir(dirs[i + 1])), dirs, i + 1)

\* A mutant of init_extensions: the site directory is appended.
init_extensions_append(path, dirs) ==
    Append(InsertDirs(path, dirs, 0), SiteExtensions)

\* config.py 84-88
init_extensions(path, dirs) == Insert(InsertDirs(path, dirs, 0), -1, SiteExtensions)

InitExtensions ==
    /\ calls < MaxCalls
    /\ extPath' = init_extensions(extPath, configDirs)
    /\ calls' = calls + 1
    /\ UNCHANGED <<configDirs, runVars, extVars, gestVars, barVars, sigVars>>

----------------------------------------------------------------------------
(* Config.gestures *)

\* Values of the configuration tree: a string (kept as its words), a list of
\* strings, a number, a mapping, and a direction predicate.
Str(words) == [type |-> "str", words |-> words, num |-> 0, items |-> <<>>]
List(words) == [type |-> "list", words |-> words, num |-> 0, items |-> <<>>]
Num(n) == [type |-> "num", words |-> <<>>, num |-> n, items |-> <<>>]
Map(items) == [type |-> "map", words |-> <<>>, num |-> 0, items |-> items]

\* tilenol.gestures.directions maps a direction name to its predicate.
directions == {"up", "down"}
Direction(dir) == [type |-> "predicate", words |-> <<dir>>, num |-> 0, items |-> <<>>]

\* config.py 139-140
GestureKey(fing, dir) == ToString(fing) \o "f-" \o dir
supported_gestures == {GestureKey(fing, dir) : fing \in 2..5, dir \in directions}

\* config.py 149: f, dir = k.split('-'), for a key that GestureKey built.
DirOf(k) == CHOOSE dir \in directions : \E fing \in 2..5 : k = GestureKey(fing, dir)

\* `sub in word` for the words the values below are made of.
Substring(sub, word) ==
    \/ sub = word
    \/ sub = "action" /\ word = "transaction"
    \/ sub = "=" /\ word = "A=b"

\* Python's `key in v`: a substring test on a string, membership in a
\* list, key membership in a mapping.
In(key, v) ==
    CASE v.type = "str" -> \E i \in 1..Len(v.words) : Substring(key, v.words[i])
      [] v.type = "list" -> \E i \in 1..Len(v.words) : v.words[i] = key
      [] v.type = "map" -> key \in DOMAIN v.items

\* dict.update on dictionaries
Update(d, u) == [k \in DOMAIN d \cup DOMAIN u |-> IF k \in DOMAIN u THEN u[k] ELSE d[k]]

\* val.update(v): a mapping is merged in; a string is iterated character by
\* character and a list element by element, and each piece has to be a
\* key/value pair.  No word below has two characters, so no piece is one.
DictUpdate(val, v) ==
    IF v.type = "map" THEN [exc |-> "none", val |-> Update(val, v.items)]
    ELSE IF v.words = <<>> THEN [exc |-> "none", val |-> val]
    ELSE [exc |-> "ValueError", val |-> val]

\* config.py 125-130: shlex.split of a string of plain words gives the
\* words; anything else is returned as it is.
_command(cmd) == IF cmd.type = "str" THEN List(cmd.words) ELSE cmd

\* config.py 134-138
DefaultSettings ==
    ("detect-distance" :> Num(50)) @@ ("commit-distance" :> Num(600))
        @@ ("char" :> Str(<<"^">>))

\* config.py 150-162: the record of one supported key.
CompileGesture(settings, k, v) ==
    IF ~In("action", v) /\ ~In("=", v)
    THEN [exc |-> "none",
          val |-> ("condition" :> Direction(DirOf(k))) @@ ("action" :> _command(v))
                      @@ settings]
    ELSE LET u == DictUpdate(settings, v)
         IN  IF u.exc # "none" THEN u
             ELSE LET act == IF In("=", v) THEN _command(v.items["="])
                             ELSE _command(u.val["action"])
                  IN  [exc |-> "none",
                       val |-> ("condition" :> Direction(DirOf(k)))
                                   @@ ("action" :> act) @@ u.val]

\* config.py 146-164: the loop over gest.items(), in the order the
\* dictionary yields its keys.
RECURSIVE GestureLoop(_, _, _, _, _, _)
GestureLoop(gest, settings, order, i, res, warned) ==
    IF i > Len(order) THEN [called |-> TRUE, exc |-> "none", res |-> res, warned |-> warned]
    ELSE LET k == order[i]
         IN  IF k = "settings"
             THEN GestureLoop(gest, settings, order, i + 1, res, warned)
             ELSE IF k \in supported_gestures
             THEN LET c == CompileGesture(settings, k, gest[k])
                  IN  IF c.exc # "none"
                      THEN [called |-> TRUE, exc |-> c.exc, res |-> <<>>, warned |-> warned]
                      ELSE GestureLoop(gest, settings, order, i + 1,
                                       (k :> c.val) @@ res, warned)
             ELSE GestureLoop(gest, settings, order, i + 1, res, warned \cup {k})

\* config.py 141-144
MergedGestures(file, data) == Update(file, data)
GestureSettings(gest) ==
    IF "settings" \in DOMAIN gest THEN Update(DefaultSettings, gest["settings"].items)
    ELSE DefaultSettings

\* config.py 132-165
gestures(file, data, order) ==
    LET gest == MergedGestures(file, data)
    IN  GestureLoop(gest, GestureSettings(gest), order, 1, <<>>, {})

\* The orders in which a dictionary with these keys can yield them.
KeyOrders(keys) ==
    {o \in [1..Cardinality(keys) -> keys] : \A i, j \in DOMAIN o : o[i] = o[j] => i = j}

GestKeys == {"3f-up", "2f-down", "6f-up"}

GestValues ==
    {Str(<<"spawn", "terminal">>),
     Str(<<"spawn", "transaction">>),
     Str(<<"env", "A=b">>),
     List(<<"spawn", "terminal">>),
     List(<<"run", "action">>),
     Map(("=" :> Str(<<"spawn", "terminal">>)) @@ ("commit-distance" :> Num(100))),
     Map(("action" :> List(<<"spawn", "terminal">>)) @@ ("condition" :> Str(<<"mine">>))
             @@ ("colour" :> Str(<<"red">>))),
     Map("commit-distance" :> Num(100))}

SettingsBlocks ==
    {Map("commit-distance" :> Num(400)),
     Map(("char" :> Str(<<"x">>)) @@ ("colour" :> Str(<<"blue">>)))}

GestTables(n) ==
    UNION {[ks -> GestValues] : ks \in {x \in SUBSET GestKeys : Cardinality(x) <= n}}

WithSettings(tables) ==
    tables \cup {("settings" :> b) @@ t : b \in SettingsBlocks, t \in tables}

NotCompiled == [called |-> FALSE, exc |-> "none", res |-> <<>>, warned |-> {}]

GestInit(files, datas) ==
    /\ gestFile \in files
    /\ gestData \in datas
    /\ gestOut = NotCompiled

GestIdle == GestInit({<<>>}, {<<>>})

\* A call of Config.gestures.
CallGestures ==
    /\ ~gestOut.called
    /\ \E order \in KeyOrders(DOMAIN MergedGestures(gestFile, gestData)) :
          gestOut' = gestures(gestFile, gestData, order)
    /\ UNCHANGED <<gestFile, gestData, runVars, extVars, pathVars, barVars, sigVars>>

----------------------------------------------------------------------------
(* Config.bars *)

True == [type |-> "bool", words |-> <<>>, num |-> 1, items |-> <<>>]

\* An entry of a bar's 'left' or 'right' list: a widget name, or a
\* dictionary with the name as its only key and the parameters as its value.
Winfo(typ, isdict, params) == [typ |-> typ, isdict |-> isdict, params |-> params]
Winfos ==
    {Winfo("Clock", FALSE, <<>>), Winfo("--", FALSE, <<>>), Winfo("Nope", FALSE, <<>>),
     Winfo("Clock", TRUE, "format" :> Str(<<"%H:%M">>))}

\* config.py 10, 246 and 260: separator.match(typ)
IsSeparator(typ) == typ \in {"-", "--", "_", "__"}

\* config.py 249-252 and 262-265: the widget classes get_extension_class
\* finds in tilenol.widgets; None for any other name.
WidgetClasses == {"Clock", "Sep"}

\* config.py 240-254 and 256-267: the widget built from one entry, or
\* nothing.  A name alone comes with fresh, empty parameters.
Widget(winfo, right) ==
    LET typ == IF IsSeparator(winfo.typ) THEN "Sep" ELSE winfo.typ
        params == IF right THEN ("right" :> True) @@ winfo.params ELSE winfo.params
    IN  IF typ \in WidgetClasses THEN <<[class |-> typ, params |-> params]>> ELSE <<>>

RECURSIVE Widgets(_, _)
Widgets(winfos, right) ==
    IF winfos = <<>> THEN <<>>
    ELSE Widget(Head(winfos), right) \o Widgets(Tail(winfos), right)

Reversed(q) == [i \in 1..Len(q) |-> q[Len(q) + 1 - i]]

\* dict.pop(key, default)
Pop(d, key) == [k \in DOMAIN d \ {key} |-> d[k]]
Get(d, key, default) == IF key \in DOMAIN d THEN d[key] ELSE default

\* config.py 238-272: the bar of one entry of the list, and the entry as
\* the three pops leave it.
CompileBar(binfo) ==
    LET w == Widgets(Reversed(Get(binfo, "right", <<>>)), TRUE)
                 \o Widgets(Get(binfo, "left", <<>>), FALSE)
        left == Pop(Pop(Pop(binfo, "right"), "left"), "screen")
    IN  [sno |-> Get(binfo, "screen", Num(0)).num,
         bar |-> [widgets |-> w, kw |-> left],
         binfo |-> left]

\* config.py 232-272, the generator run to its end: what it yields and
\* what self.data['bars'] holds afterwards.  Without bars in self.data the
\* bars come from the 'bars' file, which does not exist here.
bars(tree) ==
    [out |-> [i \in 1..Len(tree) |-> [sno |-> CompileBar(tree[i]).sno,
                                      bar |-> CompileBar(tree[i]).bar]],
     tree |-> [i \in 1..Len(tree) |-> CompileBar(tree[i]).binfo]]

WinfoLists == SeqsUpTo(Winfos, MaxWidgets)

\* The entries of self.data['bars']: each key is there or not.
Optional(key, values) == {<<>>} \cup {key :> v : v \in values}
BinfoSpace ==
    {r @@ l @@ n @@ p : r \in Optional("right", WinfoLists),
                        l \in Optional("left", WinfoLists),
                        n \in Optional("screen", {Num(0), Num(1)}),
                        p \in Optional("position", {Str(<<"bottom">>)})}

BarsInit(trees) ==
    /\ dataBars \in trees
    /\ dataLoaded = dataBars
    /\ barsOut = <<>>

BarsIdle == BarsInit({<<>>})

\* A call of Config.bars, consumed as Tilenol.run consumes it.
CallBars ==
    /\ Len(barsOut) < MaxCalls
    /\ barsOut' = Append(barsOut, bars(dataBars).out)
    /\ dataBars' = bars(dataBars).tree
    /\ UNCHANGED <<dataLoaded, runVars, extVars, pathVars, gestVars, sigVars>>

----------------------------------------------------------------------------
(* child_handler and the interrupted loop *)

Pids == 1..MaxKids

\* A child process has not been started ("none"), runs, has terminated and
\* waits to be reaped ("zombie"), or has been reaped.
Zombies(k) == {p \in Pids : k[p] = "zombie"}
Running(k) == {p \in Pids : k[p] = "running"}
Reaped(k) == {p \in Pids : k[p] = "reaped"}

\* main.py 30: os.waitpid(-1, os.WNOHANG) reaps any terminated child and
\* returns its pid, returns pid 0 when children exist but none has
\* terminated, and raises ChildProcessError (an OSError) without children.
WaitResult(pid, e) == [pid |-> pid, exc |-> e]
waitpid(k) ==
    IF Zombies(k) # {} THEN {WaitResult(p, "none") : p \in Zombies(k)}
    ELSE IF Running(k) # {} THEN {WaitResult(0, "none")}
    ELSE {WaitResult(0, "ChildProcessError")}

Reap(k, pid) == IF pid \in Pids THEN [k EXCEPT ![pid] = "reaped"] ELSE k

HandlerTurn(again, e) == [again |-> again, exc |-> e]

\* A mutant of child_handler: one waitpid call, no loop.
child_handler_once(r) == HandlerTurn(FALSE, "none")

\* A mutant of child_handler: no except clause.
child_handler_nocatch(r) ==
    IF r.exc # "none" THEN HandlerTurn(FALSE, r.exc)
    ELSE IF r.pid = 0 THEN HandlerTurn(FALSE, "none")
    ELSE HandlerTurn(TRUE, "none")

\* main.py 27-34: one turn of `while True`, on the outcome r of waitpid.
\* `pid is 0` holds exactly for pid 0: CPython keeps one object per small
\* integer.
child_handler(r) ==
    IF r.exc # "none" THEN HandlerTurn(FALSE, "none")
    ELSE IF r.pid = 0 THEN HandlerTurn(FALSE, "none")
    ELSE HandlerTurn(TRUE, "none")

SigInit(ks) ==
    /\ kids \in ks
    /\ hstate = "idle"
    /\ atStart = kids
    /\ waits = 0
    /\ pending = FALSE
    /\ cur = 0

SigIdle == SigInit({[p \in Pids |-> "none"]})

\* main.py 123-125: the state in which Tilenol.loop is entered when the
\* configuration has no rules and the root window has no children.
AtLoop ==
    /\ pc = "loop"
    /\ exc = "none"
    /\ inj = <<"xcore", "keysyms", "config", "theme", "commander",
               "screen-manager", "key-registry", "mouse-registry",
               "group-manager", "classifier", "event-dispatcher", "ewmh",
               "tilenol">>
    /\ cfgRules = <<>> /\ dataRules = NoData
    /\ rpos = <<1, 1>>
    /\ classifier = <<>>
    /\ all_windows = {}
    /\ children = <<>>
    /\ ci = 1
    /\ attrs = [w \in WindowIds |-> NoAttr]
    /\ emitted = <<>>
    /\ handlers = {"SIGCHLD", "SIGQUIT"}
    /\ stream = <<>>
    /\ fetched = 0
    /\ dispatched = <<>>
    /\ raised = {}
    /\ log = <<>>
    /\ redirect = TRUE
    /\ stderr = <<>>

loopVars == <<stream, fetched, dispatched, raised, log, pc, exc>>
graphVars == <<inj, cfgRules, dataRules, rpos, classifier, all_windows,
               children, ci, attrs, emitted, handlers, redirect, stderr>>
configVars == <<extVars, pathVars, gestVars, barVars>>

\* A child process started by a command terminates: the kernel raises
\* SIGCHLD, which stays pending until the interpreter runs the handler.
ChildExit ==
    /\ "SIGCHLD" \in handlers
    /\ \E p \in Running(kids) : kids' = [kids EXCEPT ![p] = "zombie"]
    /\ pending' = TRUE
    /\ UNCHANGED <<hstate, atStart, waits, cur, loopVars, graphVars, configVars>>

\* The interpreter calls child_handler between two instructions of the main
\* thread, wherever the loop is.
Deliver ==
    /\ pending
    /\ hstate # "running"
    /\ pc = "loop"
    /\ pending' = FALSE
    /\ hstate' = "running"
    /\ atStart' = kids
    /\ waits' = 0
    /\ UNCHANGED <<kids, cur, loopVars, graphVars, configVars>>

\* One turn of child_handler.  An exception leaving the handler is raised
\* in the interrupted code: inside the try of Tilenol.loop while an event
\* is dispatched, in get_events otherwise.
HandlerStep ==
    /\ hstate = "running"
    /\ \E r \in waitpid(kids) :
          LET t == child_handler(r)
          IN  /\ kids' = Reap(kids, r.pid)
              /\ waits' = waits + 1
              /\ hstate' = IF t.again THEN "running" ELSE "returned"
              /\ IF t.exc = "none" THEN UNCHANGED <<cur, loopVars>>
                 ELSE IF cur # 0
                 THEN LET b == LoopBody(stream[cur], TRUE)
                      IN  /\ log' = log \o b.logged
                          /\ exc' = b.exc
                          /\ pc' = IF b.exc = "none" THEN pc ELSE "crashed"
                          /\ cur' = 0
                          /\ UNCHANGED <<stream, fetched, dispatched, raised>>
                 ELSE /\ pc' = "crashed"
                      /\ exc' = t.exc
                      /\ UNCHANGED <<cur, stream, fetched, dispatched, raised, log>>
    /\ UNCHANGED <<atStart, pending, graphVars, configVars>>

\* main.py 170-172: get_events yields the next event and dispatch is called.
LoopFetch ==
    /\ LoopEntered
    /\ hstate # "running"
    /\ cur = 0
    /\ fetched < Len(stream)
    /\ cur' = fetched + 1
    /\ fetched' = fetched + 1
    /\ dispatched' = Append(dispatched, stream[fetched + 1])
    /\ UNCHANGED <<stream, raised, log, pc, exc, kids, hstate, atStart, waits,
                   pending, graphVars, configVars>>

\* main.py 171-174: the dispatch returns or raises.
LoopFinish ==
    /\ LoopEntered
    /\ hstate # "running"
    /\ cur # 0
    /\ \E fails \in BOOLEAN :
          LET r == LoopBody(stream[cur], fails)
          IN  /\ raised' = IF fails THEN raised \cup {stream[cur]} ELSE raised
              /\ log' = log \o r.logged
              /\ exc' = r.exc
              /\ pc' = IF r.exc = "none" THEN pc ELSE "crashed"
    /\ cur' = 0
    /\ UNCHANGED <<stream, fetched, dispatched, kids, hstate, atStart, waits,
                   pending, graphVars, configVars>>

----------------------------------------------------------------------------
(* Specifications *)

RunIdle == InitWith({[primary |-> <<>>, data |-> NoData]})

\* default_module is a module that was imported: it is loadable.
InitExt ==
    /\ RunIdle /\ PathIdle /\ GestIdle /\ BarsIdle /\ SigIdle
    /\ extIn \in {i \in ExtInputs : i.default_module.loadable}
    /\ extOut = NotCalled

NextExt == GetExtensionClass

SpecExt == InitExt /\ [][NextExt]_vars

InitPath ==
    /\ RunIdle /\ ExtIdle /\ GestIdle /\ BarsIdle /\ SigIdle
    /\ \E d \in DirLists : PathInit(d)

NextPath == InitExtensions

SpecPath == InitPath /\ [][NextPath]_vars

Init == InitWith(RunConfigs) /\ ExtIdle /\ PathIdle /\ GestIdle /\ BarsIdle /\ SigIdle

Next ==
    \/ Construct
    \/ CreateClassifier
    \/ RulesStep
    \/ CreateDispatcher
    \/ SetupInput
    \/ SetupBars
    \/ QueryTree
    \/ DiscoverWindow
    \/ InstallSignals
    \/ Arrive
    \/ LoopStep

Spec == Init /\ [][Next]_vars

\* Bootstrap up to the creation of the event dispatcher, over every rule
\* configuration within the bounds.
InitRules ==
    InitWith(ConfigSpace) /\ ExtIdle /\ PathIdle /\ GestIdle /\ BarsIdle /\ SigIdle

NextRules ==
    \/ Construct
    \/ CreateClassifier
    \/ RulesStep
    \/ CreateDispatcher

SpecRules == InitRules /\ [][NextRules]_vars

\* Config.gestures over every file-backed table within the bounds and every
\* in-memory override of at most one gesture.
InitGest ==
    /\ RunIdle /\ ExtIdle /\ PathIdle /\ BarsIdle /\ SigIdle
    /\ GestInit(WithSettings(GestTables(MaxGestures)), WithSettings(GestTables(1)))

NextGest == CallGestures

SpecGest == InitGest /\ [][NextGest]_vars

\* Calls of Config.bars on every 'bars' list within the bounds.
InitBars ==
    /\ RunIdle /\ ExtIdle /\ PathIdle /\ GestIdle /\ SigIdle
    /\ BarsInit(SeqsUpTo(BinfoSpace, MaxBars))

NextBars == CallBars

SpecBars == InitBars /\ [][NextBars]_vars

\* The loop after bootstrap, with child processes terminating and SIGCHLD
\* delivered at any point.  A restart (quit_handler) re-executes the
\* program with its children, so a child can be a zombie from the start.
InitSig ==
    /\ AtLoop /\ ExtIdle /\ PathIdle /\ GestIdle /\ BarsIdle
    /\ SigInit([Pids -> {"none", "running", "zombie"}])

NextSig ==
    \/ Arrive
    \/ ChildExit
    \/ Deliver
    \/ HandlerStep
    \/ LoopFetch
    \/ LoopFinish

SpecSig == InitSig /\ [][NextSig]_vars

----------------------------------------------------------------------------
(* Properties of Tilenol.run *)

Range(s) == {s[k] : k \in 1..Len(s)}

Positions(type, w) ==
    {k \in 1..Len(emitted) : emitted[k].type = type /\ emitted[k].window = w}

ChildIndex(w) == CHOOSE k \in 1..Len(children) : children[k] = w

Failed(e) == e \in raised

Synthetic(e) == e.type \in {"CreateNotify", "MapRequest"}

BeforeDispatcher == pc \in {"start", "classifier", "rules", "crashed"}

\* Every rule declared in the two sources, file-backed source first.
RECURSIVE Flatten(_)
Flatten(items) ==
    IF items = <<>> THEN <<>>
    ELSE [k \in 1..Len(items[1].rules) |-> <<items[1].cls, items[1].rules[k]>>]
           \o Flatten(Tail(items))

DeclaredRules == Flatten(cfgRules) \o Flatten(dataRules.items)

HasAction(rule) == \E k \in 1..Len(rule) : rule[k] \in all_actions
HasUnknownKey(rule) ==
    \E k \in 1..Len(rule) : rule[k] \notin all_conditions \cup all_actions

\* C1: in Tilenol.loop every event of the stream is dispatched exactly once
\* and in arrival order, whichever dispatches raise: the dispatched events are
\* a prefix of the stream, the loop has moved past each of them, the log holds
\* exactly the failed ones, once each and in order, and a failure never ends
\* the loop.
C1_LoopFaultIsolation ==
    /\ fetched = Len(dispatched)
    /\ fetched <= Len(stream)
    /\ dispatched = SubSeq(stream, 1, fetched)
    /\ log = SelectSeq(dispatched, Failed)
    /\ fetched > 0 => pc = "loop" /\ exc = "none"

C1_Witness ==
    /\ Len(dispatched) = 2
    /\ dispatched[1] \in raised
    /\ dispatched[2] \notin raised
    /\ log = <<dispatched[1]>>

\* C2: in catch_windows a window gets at most one creation event and at most
\* one mapping event; a mapping event comes strictly after the creation event
\* of the same window and only for a window that is not unmapped and not
\* override-redirect; such a window whose creation event was handled has its
\* mapping event, and an unmapped window has its creation event only.
C2_CreateBeforeMap ==
    \A w \in WindowIds :
        LET cs == Positions("CreateNotify", w)
            ms == Positions("MapRequest", w)
        IN  /\ Cardinality(cs) <= 1
            /\ Cardinality(ms) <= 1
            /\ \A m \in ms : \E c \in cs : c < m
            /\ ms # {} => /\ attrs[w].map_state # "Unmapped"
                          /\ ~attrs[w].override_redirect
            /\ (cs # {} /\ attrs[w].map_state = "Unmapped") => ms = {}
            /\ (/\ cs # {}
                /\ \A c \in cs : emitted[c] \notin raised
                /\ attrs[w].map_state # "Unmapped"
                /\ ~attrs[w].override_redirect) => ms # {}

C2_Witness ==
    \E w, v \in WindowIds :
        /\ Positions("CreateNotify", w) # {}
        /\ Positions("MapRequest", w) # {}
        /\ attrs[v].map_state = "Unmapped"
        /\ Positions("CreateNotify", v) # {}
        /\ Positions("MapRequest", v) = {}

\* C3 (as claimed): a failure while handling a synthetic startup event is
\* logged and contained: it does not leave catch_windows, so that run goes on
\* to install the signal handlers and to enter the loop.
C3_SyntheticFailureContained ==
    \A e \in raised :
        Synthetic(e) => /\ exc = "none"
                        /\ pc # "crashed"
                        /\ e \in Range(log)

\* C4: all synthetic events are handled, in the order of the tree query's
\* reply, before the first live event is fetched: while catch_windows has
\* children left no live event has been fetched or dispatched, the loop is
\* entered only when every child has been looked at, and the synthetic events
\* follow the order of the children.
C4_SyntheticBeforeLive ==
    /\ (fetched > 0 \/ dispatched # <<>>) => pc = "loop"
    /\ pc = "loop" => ci > Len(children)
    /\ pc # "loop" => fetched = 0 /\ dispatched = <<>>
    /\ \A k \in 1..Len(emitted) :
          /\ emitted[k].window \in Range(children)
          /\ ChildIndex(emitted[k].window) <= ci
          /\ \A l \in 1..Len(emitted) :
                k < l => ChildIndex(emitted[k].window) <= ChildIndex(emitted[l].window)

C4_Witness ==
    /\ Len(emitted) >= 3
    /\ emitted[1].window # emitted[3].window
    /\ Len(dispatched) >= 1
    /\ Len(stream) = MaxEvents

\* C5: a rule with a key that is neither a condition kind nor an action kind
\* stops bootstrap: Config.rules never completes, the event dispatcher is
\* never created, window discovery never runs and the loop is never entered;
\* no compiled rule comes from such a rule.
C5_UnknownKeyStopsBootstrap ==
    (\E k \in 1..Len(DeclaredRules) : HasUnknownKey(DeclaredRules[k][2])) =>
        /\ BeforeDispatcher
        /\ pc = "crashed" => exc # "none"
        /\ "event-dispatcher" \notin Range(inj)
        /\ children = <<>> /\ emitted = <<>>
        /\ handlers = {}
        /\ fetched = 0 /\ dispatched = <<>>
        /\ Len(classifier) < Len(DeclaredRules)

C5_Witness ==
    /\ \E k \in 1..Len(DeclaredRules) : HasUnknownKey(DeclaredRules[k][2])
    /\ pc = "crashed"
    /\ exc = "NotImplementedError"

\* C6 (as claimed): when rule compilation fails on a rule with an unregistered
\* key or without action, no rule of the rule set has been added to the
\* classifier.
C6_NoPartialRuleSet ==
    (pc = "crashed" /\ exc = "NotImplementedError") => classifier = <<>>

\* C7: every rule Config.rules yields, and so every rule of the classifier,
\* has an action; a declared rule without action, with or without conditions,
\* makes compilation fail, so that bootstrap never gets past the rules.
C7_ActionsNeverEmpty ==
    /\ \A k \in 1..Len(classifier) : classifier[k][3] # <<>>
    /\ (\E k \in 1..Len(DeclaredRules) : ~HasAction(DeclaredRules[k][2])) =>
          /\ BeforeDispatcher
          /\ Len(classifier) < Len(DeclaredRules)

C7_Witness ==
    /\ \E k \in 1..Len(DeclaredRules) :
          /\ DeclaredRules[k][2] = <<"title">>
          /\ k = Len(classifier) + 1
    /\ classifier # <<>>
    /\ pc = "crashed"
    /\ exc = "NotImplementedError"

\* What the classifier holds once every declared rule is compiled.
ExpectedRules ==
    [k \in 1..Len(DeclaredRules) |->
        LET r == CompileKeys(DeclaredRules[k][2], 1, <<>>, <<>>)
        IN  <<NormClass(DeclaredRules[k][1]), r.cond, r.act>>]

ValidRule(rule) == HasAction(rule) /\ ~HasUnknownKey(rule)

\* C8 (as claimed): with two valid rule sources, each a mapping from subject
\* to rule list, compilation completes and the classifier receives one rule
\* per declared rule, the file-backed source first, in declared order.
C8_OneRulePerDeclaredRule ==
    (/\ dataRules.shape = "map"
     /\ \A k \in 1..Len(DeclaredRules) : ValidRule(DeclaredRules[k][2])) =>
        /\ pc # "crashed"
        /\ pc \notin {"start", "classifier", "rules"} => classifier = ExpectedRules

----------------------------------------------------------------------------
(* Properties of the configuration's extension lookup *)

Count(s, x) == Cardinality({k \in 1..Len(s) : s[k] = x})

\* C9 (as claimed): get_extension_class returns a class that satisfies the
\* base-class capability, or the supplied default; no exception escapes.
C9_ClassOrDefault ==
    extOut # NotCalled =>
        /\ extOut.exc = "none"
        /\ extOut.ret = DefaultValue \/ extOut.ret.kind = "Sub"

\* C10 (as claimed): seeding the extension path is idempotent: after one or
\* more calls of init_extensions the path holds each configuration
\* directory's entry and the site-extension directory exactly once, and it
\* is the path that one call produces.
C10_SeedingIdempotent ==
    calls >= 1 =>
        /\ \A k \in 1..Len(configDirs) : Count(extPath, ExtDir(configDirs[k])) = 1
        /\ Count(extPath, SiteExtensions) = 1
        /\ extPath = init_extensions(<<"tilenol/ext">>, configDirs)

\* The entries of the configuration directories, in the order of
\* self.config.dirs: most specific first.
ConfigEntries == [k \in 1..Len(configDirs) |-> ExtDir(configDirs[k])]

\* C20 (as claimed): after init_extensions has seeded the path, it starts
\* with one entry per configuration directory, most specific first, and the
\* site-extension directory is its last entry.
C20_SiteLast ==
    calls = 1 =>
        /\ SubSeq(extPath, 1, Len(configDirs)) = ConfigEntries
        /\ extPath[Len(extPath)] = SiteExtensions

\* C20 (amended): after init_extensions has seeded the path, it holds one
\* entry per configuration directory, most specific first, then the
\* site-extension directory, then the bundled directory it started with:
\* the site directory follows every configuration entry and the bundled
\* directory stays last.
C20_SiteBeforeBundled ==
    calls = 1 => extPath = ConfigEntries \o <<SiteExtensions, "tilenol/ext">>

C20_Witness ==
    /\ calls = 1
    /\ Len(configDirs) = MaxDirs
    /\ extPath[Len(extPath) - 1] = SiteExtensions

\* C16: when the server does not grant substructure redirection,
\* setup_events prints the diagnostic and returns: nothing is raised, and
\* Tilenol.run goes on with the bars.  With the redirection granted nothing
\* is printed.
C16_RefusalDiagnosed ==
    /\ stderr = IF redirect THEN <<>> ELSE <<Diagnostic>>
    /\ pc = "bars" => exc = "none"
    /\ exc # "SystemExit"

C16_Witness == ~redirect /\ pc = "loop" /\ exc = "none" /\ Len(dispatched) > 0

\* The order of construction the bootstrap has to follow.
ServiceOrder ==
    <<"xcore", "keysyms", "config", "theme", "commander", "screen-manager",
      "key-registry", "mouse-registry", "group-manager", "classifier",
      "event-dispatcher", "ewmh", "tilenol">>
StepOrder ==
    <<"start", "classifier", "rules", "dispatcher", "setup", "bars", "catch",
      "discover", "loop">>
StepIndex(p) == CHOOSE k \in 1..Len(StepOrder) : StepOrder[k] = p

\* C18: run registers the services in one fixed order and goes through its
\* steps in one fixed order; the event dispatcher exists only when
\* Config.rules has ended, every rule it yields being in the classifier; the
\* window manager is injected when every other service is registered; the
\* root event mask and the bars come after that and before any child window
\* is looked at; the signal handlers are installed only when every child has
\* been looked at, and no live event is taken before that.
C18_BootstrapOrder ==
    /\ [](/\ inj = SubSeq(ServiceOrder, 1, Len(inj))
          /\ "event-dispatcher" \in Range(inj) =>
                Resume(RuleChain(cfgRules, dataRules), rpos[1], rpos[2]).kind = "stop"
          /\ "tilenol" \in Range(inj) => inj = ServiceOrder
          /\ pc \in {"setup", "bars", "catch", "discover", "loop"} => inj = ServiceOrder
          /\ (children # <<>> \/ emitted # <<>>) => pc \in {"discover", "loop", "crashed"}
          /\ handlers # {} => (pc = "loop" /\ ci > Len(children))
          /\ fetched > 0 => handlers # {})
    /\ [][pc' # pc => \/ pc' = "crashed"
                      \/ StepIndex(pc') = StepIndex(pc) + 1]_vars

C18_Witness ==
    /\ pc = "loop"
    /\ Len(classifier) >= 2
    /\ Len(emitted) >= 2
    /\ fetched = MaxEvents

\* Windows the dispatcher knew before catch_windows looked at them.
KnownBefore == {w \in all_windows : Positions("CreateNotify", w) = {}}

\* C17: once catch_windows is over, every child it found to be neither the
\* root, nor known, nor input-only has exactly one creation event, and has a
\* mapping event exactly if it is not unmapped and not override-redirect;
\* the root, a known window and an input-only window have no event.
C17_DiscoveryEvents ==
    pc \in {"loop", "crashed"} =>
        \A i \in 1..Len(children) :
            LET w == children[i]
                cs == Positions("CreateNotify", w)
                ms == Positions("MapRequest", w)
            IN  /\ (w = Root \/ w \in KnownBefore \/ attrs[w].class = "InputOnly") =>
                      (cs = {} /\ ms = {})
                /\ (w # Root /\ w \notin KnownBefore /\ attrs[w].class = "InputOutput") =>
                      /\ Cardinality(cs) = 1
                      /\ Cardinality(ms) <= 1
                      /\ ms # {} <=> (/\ attrs[w].map_state # "Unmapped"
                                      /\ ~attrs[w].override_redirect)

----------------------------------------------------------------------------
(* Properties of Config.gestures *)

GestMerged == MergedGestures(gestFile, gestData)
GestureEntries == DOMAIN GestMerged \ {"settings"}
SettingsBlock ==
    IF "settings" \in DOMAIN GestMerged THEN GestMerged["settings"].items ELSE <<>>
Declared(v) == IF v.type = "map" THEN v.items ELSE <<>>

\* The table without its unsupported keys, compiled.
SupportedOnly ==
    LET keep == DOMAIN GestMerged \cap (supported_gestures \cup {"settings"})
        table == [k \in keep |-> GestMerged[k]]
    IN  gestures(table, <<>>, CHOOSE o \in KeyOrders(keep) : TRUE)

\* C11: for every gesture table Config.gestures returns a record for exactly
\* the entries whose key is in the closed set {2..5}f-{direction}; every
\* other entry is dropped with a warning, and the records are the ones the
\* table without its unsupported keys compiles to.
C11_SupportedKeysCompiled ==
    gestOut.called =>
        /\ gestOut.exc = "none"
        /\ DOMAIN gestOut.res = GestureEntries \cap supported_gestures
        /\ gestOut.warned = GestureEntries \ supported_gestures
        /\ gestOut.res = SupportedOnly.res

\* C12: every compiled record takes each setting from the gesture's own
\* mapping if it declares it, else from the 'settings' block, else from the
\* built-in defaults, holds no setting declared elsewhere, and has the
\* direction predicate of its key as 'condition'.
C12_SettingsPrecedence ==
    (gestOut.called /\ gestOut.exc = "none") =>
        \A k \in DOMAIN gestOut.res :
            LET own == Declared(GestMerged[k])
                rec == gestOut.res[k]
                names == (DOMAIN own \cup DOMAIN SettingsBlock \cup DOMAIN DefaultSettings)
                             \ {"action", "=", "condition"}
            IN  /\ rec["condition"] = Direction(DirOf(k))
                /\ DOMAIN rec \ {"action", "=", "condition"} = names
                /\ \A s \in names :
                      rec[s] = IF s \in DOMAIN own THEN own[s]
                               ELSE IF s \in DOMAIN SettingsBlock THEN SettingsBlock[s]
                               ELSE DefaultSettings[s]

\* C13: a supported key whose value is a command string or a token list
\* always compiles, to an action that is the value's tokens; a mapping
\* value's action is its tokenized '=' entry, else its tokenized 'action'
\* entry; the action of every compiled record is a token sequence.
C13_ActionIsTokenSequence ==
    gestOut.called =>
        \A k \in GestureEntries \cap supported_gestures :
            LET v == GestMerged[k]
            IN  /\ v.type \in {"str", "list"} =>
                      /\ gestOut.exc = "none"
                      /\ gestOut.res[k]["action"] = List(v.words)
                /\ (gestOut.exc = "none" /\ v.type = "map" /\ "=" \in DOMAIN v.items) =>
                      gestOut.res[k]["action"] = _command(v.items["="])
                /\ (gestOut.exc = "none" /\ v.type = "map" /\ "=" \notin DOMAIN v.items
                        /\ "action" \in DOMAIN v.items) =>
                      gestOut.res[k]["action"] = _command(v.items["action"])
                /\ gestOut.exc = "none" => gestOut.res[k]["action"].type = "list"

----------------------------------------------------------------------------
(* Properties of child_handler and of the interrupted loop *)

\* Children reaped by the current (or last) invocation of child_handler.
ReapedNow == Reaped(kids) \ Reaped(atStart)

\* C14: child_handler never raises and never blocks (its next waitpid call
\* can always be made); every waitpid call but the last reaps a child, so
\* an invocation makes at most one call more than there are children; when
\* it returns, every child that had terminated when it started is reaped,
\* and its last call was the first that found nothing to reap.
C14_ChildHandlerReaps ==
    /\ exc = "none"
    /\ hstate = "running" => ENABLED HandlerStep
    /\ hstate = "running" => waits = Cardinality(ReapedNow)
    /\ hstate = "returned" =>
          /\ waits = Cardinality(ReapedNow) + 1
          /\ Zombies(atStart) \subseteq Reaped(kids)

C14_Witness ==
    /\ hstate = "returned"
    /\ Cardinality(Zombies(atStart)) = MaxKids
    /\ Reaped(kids) = Pids

\* C19: with SIGCHLD delivered at any point of the loop, waiting or in the
\* middle of a dispatch, the loop is never left and nothing is raised; the
\* services, the classifier, the known windows and the installed handlers
\* stay as they were when the loop was entered; the events dispatched are
\* the events taken from the transport, in arrival order, the interrupted
\* dispatch is still the current one, and the log holds exactly the events
\* whose own dispatch failed.
C19_SignalLeavesLoopIntact ==
    /\ pc = "loop" /\ exc = "none"
    /\ inj = ServiceOrder
    /\ classifier = <<>> /\ all_windows = {} /\ emitted = <<>>
    /\ handlers = {"SIGCHLD", "SIGQUIT"}
    /\ dispatched = SubSeq(stream, 1, fetched)
    /\ cur \in {0, fetched}
    /\ log = SelectSeq(dispatched, Failed)

C19_Witness ==
    /\ hstate = "running"
    /\ Reaped(kids) # {}
    /\ cur = MaxEvents
    /\ log # <<>>

----------------------------------------------------------------------------
(* Properties of Config.bars *)

\* C15: the configuration tree is as it was loaded after any number of
\* accessor calls, and an accessor called twice yields what it yielded the
\* first time.
C15_TreeReadOnly ==
    /\ dataBars = dataLoaded
    /\ \A i \in 1..Len(barsOut) : barsOut[i] = barsOut[1]

====
